---- MODULE Spec2Model ----
EXTENDS Integers, Naturals, Sequences, FiniteSets, TLC

(***************************************************************************)
(* Circuits: gates are numbered 1..NG in gatemap order.  A circuit is a    *)
(* record of gate types, ordered fan-in lists and the primary outputs.     *)
(* Fan-out lists are derived from fan-in lists, in gatemap order.          *)
(***************************************************************************)

NG == 3

Gates == 1..NG

MultiTypes == {"AND", "NAND", "OR", "NOR", "XOR", "XNOR"}

TypeFan(i) ==
    {<<"INPUT", <<>>>>}
    \cup {<<t, <<j>>>> : t \in {"NOT", "BUFF"}, j \in 1..(i-1)}
    \cup {<<t, p>> : t \in MultiTypes,
                     p \in {q \in (1..(i-1)) \X (1..(i-1)) : q[1] < q[2]}}

RECURSIVE TFSeqs(_)
TFSeqs(n) == IF n = 0 THEN {<<>>}
             ELSE {s \o <<x>> : s \in TFSeqs(n-1), x \in TypeFan(n)}

MkCircuit(tf, outs) ==
    [type |-> [g \in DOMAIN tf |-> tf[g][1]],
     fanin |-> [g \in DOMAIN tf |-> tf[g][2]],
     outputs |-> outs]

FanoutOf(c, g) == {h \in DOMAIN c.type : \E i \in 1..Len(c.fanin[h]) : c.fanin[h][i] = g}

RECURSIVE SeqOfSet(_)
SeqOfSet(S) == IF S = {} THEN <<>>
               ELSE LET m == CHOOSE x \in S : \A y \in S : x <= y
                    IN <<m>> \o SeqOfSet(S \ {m})

Fanout(c, g) == SeqOfSet(FanoutOf(c, g))

Sinks(c) == {g \in DOMAIN c.type : FanoutOf(c, g) = {}}

\* Acyclic circuits whose primary outputs include every gate without fan-out
Circuits ==
    UNION {{MkCircuit(tf, outs) :
              outs \in {O \in SUBSET Gates : Sinks(MkCircuit(tf, {})) \subseteq O}}
           : tf \in TFSeqs(NG)}

\* Four-gate circuits: gate 3 combines the inputs 1 and 2, gate 4 combines
\* gate 3 with one of the inputs, so dominance classes can nest two deep
DeepCircuits ==
    {MkCircuit(<<<<"INPUT", <<>>>>, <<"INPUT", <<>>>>, <<t3, <<1, 2>>>>, <<t4, p>>>>, outs) :
       t3 \in MultiTypes, t4 \in MultiTypes, p \in {<<1, 3>>, <<2, 3>>},
       outs \in {O \in SUBSET (1..4) : 4 \in O}}

(***************************************************************************)
(* Faults and fault classes (cframe.Fault / cframe.FaultClass).  A fault   *)
(* is [v, stem, br]; br = 0 is a stem fault, otherwise the branch edge     *)
(* stem -> br.  Classes live in the sequence `classes', identified by      *)
(* their index; each has an ordered equivalent list and a dominated list.  *)
(***************************************************************************)

Fault(v, stem, br) == [v |-> v, stem |-> stem, br |-> br]

NewClass(f) == [equivalent |-> <<f>>, dominated |-> <<>>]

VARIABLES circ, queue, flag, classes, top, icirc, vals, faultv, ddrive, aborted, exitcode

cvars == <<circ, queue, flag, classes, top>>

AddEquivalent(st, owner, f) ==
    [st EXCEPT !.classes[owner].equivalent = Append(@, f)]

AddDominatedNew(st, owner, f) ==
    LET id == Len(st.classes) + 1
    IN [st EXCEPT !.classes = Append([@ EXCEPT ![owner].dominated = Append(@, id)],
                                     NewClass(f))]

AddTopNew(st, f) ==
    LET id == Len(st.classes) + 1
    IN [classes |-> Append(st.classes, NewClass(f)), top |-> Append(st.top, id)]

RelationNandSwap(t, v) ==
    CASE t = "AND"  /\ v = 0 -> <<"EQ", 0>>
      [] t = "NAND" /\ v = 0 -> <<"EQ", 1>>
      [] t = "OR"   /\ v = 0 -> <<"DOM", 0>>
      [] t = "NOR"  /\ v = 0 -> <<"EQ", 1>>
      [] t = "NOT"  /\ v = 0 -> <<"EQ", 1>>
      [] t = "BUFF" /\ v = 0 -> <<"EQ", 0>>
      [] t = "AND"  /\ v = 1 -> <<"DOM", 1>>
      [] t = "NAND" /\ v = 1 -> <<"DOM", 0>>
      [] t = "OR"   /\ v = 1 -> <<"EQ", 1>>
      [] t = "NOR"  /\ v = 1 -> <<"DOM", 0>>
      [] t = "NOT"  /\ v = 1 -> <<"EQ", 0>>
      [] t = "BUFF" /\ v = 1 -> <<"EQ", 1>>
      [] OTHER -> <<"XOR", v>>

\* The fan-in relation of collapse_fault: "EQ" (equivalent) or "DOM"
\* (dominated) and the polarity of the fan-in fault, per output polarity.
Relation(t, v) ==
    CASE t = "AND"  /\ v = 0 -> <<"EQ", 0>>
      [] t = "NAND" /\ v = 0 -> <<"DOM", 1>>
      [] t = "OR"   /\ v = 0 -> <<"DOM", 0>>
      [] t = "NOR"  /\ v = 0 -> <<"EQ", 1>>
      [] t = "NOT"  /\ v = 0 -> <<"EQ", 1>>
      [] t = "BUFF" /\ v = 0 -> <<"EQ", 0>>
      [] t = "AND"  /\ v = 1 -> <<"DOM", 1>>
      [] t = "NAND" /\ v = 1 -> <<"EQ", 0>>
      [] t = "OR"   /\ v = 1 -> <<"EQ", 1>>
      [] t = "NOR"  /\ v = 1 -> <<"DOM", 0>>
      [] t = "NOT"  /\ v = 1 -> <<"EQ", 0>>
      [] t = "BUFF" /\ v = 1 -> <<"EQ", 1>>
      [] OTHER -> <<"XOR", v>>

\* The SA-v fault on the line from fan-in fi into gate g
FaninFault(c, fi, g, v) ==
    IF Cardinality(FanoutOf(c, fi)) = 1 THEN Fault(v, fi, 0) ELSE Fault(v, fi, g)

RECURSIVE CollapseFault(_, _, _, _), CollapseFanins(_, _, _, _, _)

\* collapse_fault(flt, fltclass, top_fcs, circ): st = [classes, top];
\* returns [st, fins] with fins the set of gate names returned.
CollapseFault(c, st, flt, owner) ==
    IF flt.br # 0 THEN [st |-> st, fins |-> {flt.stem}]
    ELSE IF c.type[flt.stem] = "INPUT" THEN [st |-> st, fins |-> {}]
    ELSE CollapseFanins(c, st, flt, owner, 1)

CollapseFanins(c, st, flt, owner, i) ==
    LET g == flt.stem IN
    IF i > Len(c.fanin[g]) THEN [st |-> st, fins |-> {}]
    ELSE
      LET fi == c.fanin[g][i]
          isb == Cardinality(FanoutOf(c, fi)) # 1
          rel == Relation(c.type[g], flt.v)
          fif == FaninFault(c, fi, g, rel[2])
          r == CASE rel[1] = "EQ" ->
                      CollapseFault(c, AddEquivalent(st, owner, fif), fif, owner)
                 [] rel[1] = "DOM" ->
                      CollapseFault(c, AddDominatedNew(st, owner, fif), fif,
                                    Len(st.classes) + 1)
                 [] OTHER ->
                      IF flt.v = 0
                      THEN [st |-> IF isb
                                   THEN AddTopNew(AddTopNew(st, FaninFault(c, fi, g, 0)),
                                                  FaninFault(c, fi, g, 1))
                                   ELSE st,
                            fins |-> {fi}]
                      ELSE [st |-> st, fins |-> {}]
          rest == CollapseFanins(c, r.st, flt, owner, i + 1)
      IN [st |-> rest.st, fins |-> r.fins \cup rest.fins]

IIdle ==
    /\ icirc = "none" /\ vals = "none" /\ faultv = "none"
    /\ ddrive = FALSE /\ aborted = FALSE /\ exitcode = "running"

CInit ==
    /\ IIdle
    /\ circ \in Circuits
    /\ queue = circ.outputs
    /\ flag = {}
    /\ classes = <<>>
    /\ top = <<>>

\* The loop iteration without the visited-flag test
PopStepNoFlag(c, st, g) ==
    LET st0 == AddTopNew([classes |-> st.classes, top |-> st.top], Fault(0, g, 0))
        r0 == CollapseFault(c, st0, Fault(0, g, 0), Len(st.classes) + 1)
        st1 == AddTopNew(r0.st, Fault(1, g, 0))
        r1 == CollapseFault(c, st1, Fault(1, g, 0), Len(r0.st.classes) + 1)
    IN [queue |-> (st.queue \ {g}) \cup r0.fins \cup r1.fins,
        flag |-> st.flag \cup {g},
        classes |-> r1.st.classes,
        top |-> r1.st.top]

\* One iteration of the while loop of collapse_circuit on the popped gate g;
\* st = [queue, flag, classes, top]
PopStep(c, st, g) ==
    IF g \in st.flag
    THEN [st EXCEPT !.queue = st.queue \ {g}]
    ELSE LET st0 == AddTopNew([classes |-> st.classes, top |-> st.top], Fault(0, g, 0))
             r0 == CollapseFault(c, st0, Fault(0, g, 0), Len(st.classes) + 1)
             st1 == AddTopNew(r0.st, Fault(1, g, 0))
             r1 == CollapseFault(c, st1, Fault(1, g, 0), Len(r0.st.classes) + 1)
         IN [queue |-> (st.queue \ {g}) \cup r0.fins \cup r1.fins,
             flag |-> st.flag \cup {g},
             classes |-> r1.st.classes,
             top |-> r1.st.top]

\* One iteration of the while loop: gate_queue.pop() takes any gate
Pop ==
    \E g \in queue :
      LET s == PopStep(circ, [queue |-> queue, flag |-> flag, classes |-> classes, top |-> top], g)
      IN /\ queue' = s.queue
         /\ flag' = s.flag
         /\ classes' = s.classes
         /\ top' = s.top
         /\ UNCHANGED circ

CNext == Pop /\ UNCHANGED <<icirc, vals, faultv, ddrive, aborted, exitcode>>

CSpec == CInit /\ [][CNext]_<<circ, queue, flag, classes, top, icirc, vals, faultv, ddrive, aborted>>

NInit ==
    /\ IIdle
    /\ circ \in DeepCircuits
    /\ queue = circ.outputs
    /\ flag = {}
    /\ classes = <<>>
    /\ top = <<>>

\* collapse_circuit on the four-gate circuits
NSpec == NInit /\ [][CNext]_<<circ, queue, flag, classes, top, icirc, vals, faultv, ddrive, aborted>>

(***************************************************************************)
(* Reports of collapser.py main: order, find_no_dominant_faults,           *)
(* find_no_dominant_faults_check_points and the .analysis difference.      *)
(***************************************************************************)

RECURSIVE OrderClassPost(_, _), OrderClass(_, _), OrderSeq(_, _)

OrderClassPost(cls, id) ==
    IF Len(cls[id].dominated) = 0 THEN <<id>>
    ELSE OrderSeq(cls, cls[id].dominated) \o <<id>>

\* order(fltclass, ordered): pre-order over the dominance subtree
OrderClass(cls, id) ==
    IF Len(cls[id].dominated) = 0 THEN <<id>>
    ELSE <<id>> \o OrderSeq(cls, cls[id].dominated)

OrderSeq(cls, ids) ==
    IF ids = <<>> THEN <<>>
    ELSE OrderClass(cls, Head(ids)) \o OrderSeq(cls, Tail(ids))

Ordered == OrderSeq(classes, top)

RECURSIVE NoDomClass(_, _), NoDomSeq(_, _)

NoDomClassRootsOnly(cls, id) ==
    IF Len(cls[id].dominated) = 0 THEN <<id>> ELSE <<>>

NoDomClass(cls, id) ==
    IF Len(cls[id].dominated) = 0 THEN <<id>>
    ELSE NoDomSeq(cls, cls[id].dominated)

NoDomSeq(cls, ids) ==
    IF ids = <<>> THEN <<>>
    ELSE NoDomClass(cls, Head(ids)) \o NoDomSeq(cls, Tail(ids))

\* find_no_dominant_faults(collapsed, no_dominant_faults)
NoDominantFaults == NoDomSeq(classes, top)

IsCheckPoint(c, f) == f.br # 0 \/ c.type[f.stem] = "INPUT"

RECURSIVE NoDomCPClass(_, _, _), NoDomCPSeq(_, _, _)

NoDomCPClass(c, cls, id) ==
    IF Len(cls[id].dominated) = 0 /\ IsCheckPoint(c, cls[id].equivalent[1])
    THEN <<id>>
    ELSE NoDomCPSeq(c, cls, cls[id].dominated)

NoDomCPSeq(c, cls, ids) ==
    IF ids = <<>> THEN <<>>
    ELSE NoDomCPClass(c, cls, Head(ids)) \o NoDomCPSeq(c, cls, Tail(ids))

\* find_no_dominant_faults_check_points(circ, collapsed, ...)
NoDominantFaultsCheckPoints == NoDomCPSeq(circ, classes, top)

Rep(id) == classes[id].equivalent[1]

RepsOf(s) == {Rep(s[i]) : i \in 1..Len(s)}

\* The .analysis report: representatives of the normal listing that no
\* checkpoint class shares
Analysis ==
    LET cp == RepsOf(NoDominantFaultsCheckPoints)
        nd == NoDominantFaults
    IN [i \in 1..Len(SelectSeq(nd, LAMBDA id : Rep(id) \notin cp)) |->
          Rep(SelectSeq(nd, LAMBDA id : Rep(id) \notin cp)[i])]

CollapseDone == queue = {}

\* Faults on every line: both stuck-at values on each stem, and on each
\* branch edge of a gate with more than one fan-out
LineFaults(c) ==
    {Fault(v, g, 0) : v \in {0, 1}, g \in DOMAIN c.type}
    \cup UNION {{Fault(v, g, h) : v \in {0, 1}, h \in FanoutOf(c, g)} :
                g \in {x \in DOMAIN c.type : Cardinality(FanoutOf(c, x)) > 1}}

Occurrences(f) ==
    Cardinality(UNION {{<<i, j>> : j \in {k \in 1..Len(classes[i].equivalent) :
                                           classes[i].equivalent[k] = f}} :
                       i \in 1..Len(classes)})

(***************************************************************************)
(* Roth's five-valued algebra (cframe.Roth): "0", "1", "X", "D", "Db".     *)
(* D is good 1 / faulty 0, Db its dual.  AND/OR/XOR work component-wise on *)
(* (good, faulty); an unknown operand yields X, except that AND with 0 or  *)
(* Db is 0 and OR with 1 or D is 1 (spec section 8).                       *)
(***************************************************************************)

Roth == {"0", "1", "X", "D", "Db"}

Definite == {"0", "1", "D", "Db"}

Invert(x) ==
    CASE x = "0" -> "1" [] x = "1" -> "0" [] x = "D" -> "Db" [] x = "Db" -> "D"
      [] x = "X" -> "X"

GoodOf(x) == IF x \in {"1", "D"} THEN 1 ELSE 0

BadOf(x) == IF x \in {"1", "Db"} THEN 1 ELSE 0

Encode(g, b) ==
    IF g = b THEN (IF g = 1 THEN "1" ELSE "0")
    ELSE IF g = 1 THEN "D" ELSE "Db"

Op2(kind, a, b) ==
    IF a = "X" \/ b = "X"
    THEN LET o == IF a = "X" THEN b ELSE a
         IN CASE kind = "AND" -> IF o \in {"0", "Db"} THEN "0" ELSE "X"
              [] kind = "OR"  -> IF o \in {"1", "D"} THEN "1" ELSE "X"
              [] kind = "XOR" -> "X"
    ELSE CASE kind = "AND" ->
                Encode(GoodOf(a) * GoodOf(b), BadOf(a) * BadOf(b))
           [] kind = "OR" ->
                Encode(IF GoodOf(a) + GoodOf(b) > 0 THEN 1 ELSE 0,
                       IF BadOf(a) + BadOf(b) > 0 THEN 1 ELSE 0)
           [] kind = "XOR" ->
                Encode((GoodOf(a) + GoodOf(b)) % 2, (BadOf(a) + BadOf(b)) % 2)

RECURSIVE OpFold(_, _, _)
OpFold(kind, acc, s) ==
    IF s = <<>> THEN acc ELSE OpFold(kind, Op2(kind, acc, Head(s)), Tail(s))

\* cframe.Roth.operate(kind, values)
Operate(kind, s) == OpFold(kind, Head(s), Tail(s))

(***************************************************************************)
(* The implication engine of imply.py.  Circuits for it are drawn from     *)
(* ICircuits (ordered fan-in lists, so fan-in order matters); the driver   *)
(* state is the gate values, the active faults (the last Fault command on  *)
(* a gate wins, as the scan of imply_and_check keeps the last match), the  *)
(* unique D-drive flag and whether the command stream was aborted.         *)
(***************************************************************************)

\* Bound on the steps of one run of imply_and_check
MaxSteps == 60

ITypeFan(i) ==
    {<<"INPUT", <<>>>>}
    \cup {<<t, <<j>>>> : t \in {"NOT", "BUFF"}, j \in 1..(i-1)}
    \cup {<<t, p>> : t \in MultiTypes,
                     p \in {q \in (1..(i-1)) \X (1..(i-1)) : q[1] # q[2]}}

RECURSIVE ITFSeqs(_)
ITFSeqs(n) == IF n = 0 THEN {<<>>}
              ELSE {s \o <<x>> : s \in ITFSeqs(n-1), x \in ITypeFan(n)}

IMkCircuit(tf) ==
    [type |-> [g \in DOMAIN tf |-> tf[g][1]], fanin |-> [g \in DOMAIN tf |-> tf[g][2]]]

\* Every circuit of three gates
ICircuits == {IMkCircuit(tf) : tf \in ITFSeqs(3)}

IGates == DOMAIN icirc.type

ivars == <<icirc, vals, faultv, ddrive, aborted, exitcode>>

vars == <<circ, queue, flag, classes, top, icirc, vals, faultv, ddrive, aborted, exitcode>>

IFanoutSet(g) == {h \in DOMAIN icirc.type : \E i \in 1..Len(icirc.fanin[h]) : icirc.fanin[h][i] = g}

IFanout(g) == SeqOfSet(IFanoutSet(g))

Fanin(g) == icirc.fanin[g]

Count(v, g, x) == Cardinality({i \in 1..Len(Fanin(g)) : v[Fanin(g)[i]] = x})

XInputs(v, g) == SelectSeq(Fanin(g), LAMBDA h : v[h] = "X")

FaninVals(v, g) == [i \in 1..Len(Fanin(g)) |-> v[Fanin(g)[i]]]

NewOutputIgnoreFault(fv, x) == x

\* Step 1: combine the implied value with an active fault on the line
NewOutput(fv, x) ==
    CASE fv = "0" /\ x = "1"  -> "D"
      [] fv = "0" /\ x = "0"  -> "0"
      [] fv = "0" /\ x = "D"  -> "D"
      [] fv = "0" /\ x = "Db" -> "CONFLICT"
      [] fv = "1" /\ x = "1"  -> "1"
      [] fv = "1" /\ x = "0"  -> "Db"
      [] fv = "1" /\ x = "D"  -> "CONFLICT"
      [] fv = "1" /\ x = "Db" -> "Db"
      [] fv = "X" -> x
      [] OTHER -> "X"

AllTo(xs, x) == [i \in 1..Len(xs) |-> <<xs[i], x>>]

NoAssign == [ok |-> TRUE, assigns |-> <<>>]

CheckAll(gv, out) ==
    IF out # gv /\ ~((gv = "D" /\ out = "1") \/ (gv = "Db" /\ out = "0"))
    THEN [ok |-> FALSE, assigns |-> <<>>] ELSE NoAssign

\* Step 3: backward justification, the forced fan-in assignments in order
Backward(v, g) ==
    LET t == icirc.type[g]
        gv == v[g]
        xs == XInputs(v, g)
        n == Len(Fanin(g))
        c(x) == Count(v, g, x)
        ins == FaninVals(v, g)
        even == c("1") % 2 = 0
        noDD == c("D") = 0 /\ c("Db") = 0
    IN
    CASE t = "INPUT" -> NoAssign
      [] t = "AND" ->
           IF Len(xs) = 0 THEN CheckAll(gv, Operate("AND", ins))
           ELSE IF gv \in {"1", "D"} /\ n - c("1") = c("X")
           THEN [ok |-> TRUE, assigns |-> AllTo(xs, "1")]
           ELSE IF gv \in {"0", "Db"} /\ Len(xs) = 1 /\ c("0") = 0 /\ (c("D") = 0 \/ c("Db") = 0)
           THEN [ok |-> TRUE, assigns |-> <<<<xs[1], "0">>>>]
           ELSE NoAssign
      [] t = "NAND" ->
           IF Len(xs) = 0 THEN CheckAll(gv, Invert(Operate("AND", ins)))
           ELSE IF gv \in {"0", "Db"} /\ n - c("1") = c("X")
           THEN [ok |-> TRUE, assigns |-> AllTo(xs, "1")]
           ELSE IF gv \in {"1", "D"} /\ Len(xs) = 1 /\ c("0") = 0 /\ (c("D") = 0 \/ c("Db") = 0)
           THEN [ok |-> TRUE, assigns |-> <<<<xs[1], "0">>>>]
           ELSE NoAssign
      [] t = "OR" ->
           IF Len(xs) = 0 THEN CheckAll(gv, Operate("OR", ins))
           ELSE IF gv \in {"0", "Db"} /\ n - c("0") = c("X")
           THEN [ok |-> TRUE, assigns |-> AllTo(xs, "0")]
           ELSE IF gv \in {"1", "D"} /\ Len(xs) = 1 /\ c("1") = 0 /\ (c("D") = 0 \/ c("Db") = 0)
           THEN [ok |-> TRUE, assigns |-> <<<<xs[1], "1">>>>]
           ELSE NoAssign
      [] t = "NOR" ->
           IF Len(xs) = 0 THEN CheckAll(gv, Invert(Operate("OR", ins)))
           ELSE IF gv \in {"1", "D"} /\ n - c("0") = c("X")
           THEN [ok |-> TRUE, assigns |-> AllTo(xs, "0")]
           ELSE IF gv \in {"0", "Db"} /\ Len(xs) = 1 /\ c("1") = 0 /\ (c("D") = 0 \/ c("Db") = 0)
           THEN [ok |-> TRUE, assigns |-> <<<<xs[1], "1">>>>]
           ELSE NoAssign
      [] t = "BUFF" ->
           IF c("X") = 1 THEN [ok |-> TRUE, assigns |-> <<<<Fanin(g)[1], gv>>>>]
           ELSE IF v[Fanin(g)[1]] # gv THEN [ok |-> FALSE, assigns |-> <<>>]
           ELSE NoAssign
      [] t = "NOT" ->
           IF c("X") = 1 THEN [ok |-> TRUE, assigns |-> <<<<Fanin(g)[1], Invert(gv)>>>>]
           ELSE IF Invert(v[Fanin(g)[1]]) # gv THEN [ok |-> FALSE, assigns |-> <<>>]
           ELSE NoAssign
      [] t = "XOR" ->
           IF Len(xs) = 0 THEN CheckAll(gv, Operate("XOR", ins))
           ELSE IF gv \in {"1", "D"} /\ noDD
           THEN (IF c("X") = 1
                 THEN [ok |-> TRUE, assigns |-> <<<<xs[1], IF even THEN "1" ELSE "0">>>>]
                 ELSE NoAssign)
           ELSE IF gv \in {"0", "Db"} /\ noDD
           THEN (IF c("X") = 1
                 THEN [ok |-> TRUE, assigns |-> <<<<xs[1], IF even THEN "0" ELSE "1">>>>]
                 ELSE NoAssign)
           ELSE NoAssign
      [] t = "XNOR" ->
           IF Len(xs) = 0 THEN CheckAll(gv, Invert(Operate("XOR", ins)))
           ELSE IF gv \in {"1", "D"} /\ noDD
           THEN (IF c("X") = 1 /\ even
                 THEN [ok |-> TRUE, assigns |-> <<<<xs[1], "0">>>>]
                 ELSE NoAssign)
           ELSE IF c("X") = 1 /\ ~even
           THEN [ok |-> TRUE, assigns |-> <<<<xs[1], "1">>>>]
           ELSE IF gv \in {"0", "Db"} /\ noDD
           THEN (IF c("X") = 1
                 THEN [ok |-> TRUE, assigns |-> <<<<xs[1], IF even THEN "1" ELSE "0">>>>]
                 ELSE NoAssign)
           ELSE NoAssign

\* Forward evaluation of gate g over current fan-in values; NOT and BUFF use
\* the caller's local `value' x instead of the fan-in value
FwdEval(v, g, x) ==
    LET t == icirc.type[g]
        ins == FaninVals(v, g)
    IN CASE t = "AND"  -> Operate("AND", ins)
         [] t = "NAND" -> Invert(Operate("AND", ins))
         [] t = "OR"   -> Operate("OR", ins)
         [] t = "NOR"  -> Invert(Operate("OR", ins))
         [] t = "NOT"  -> Invert(x)
         [] t = "BUFF" -> x
         [] t = "XOR"  -> Operate("XOR", ins)
         [] t = "XNOR" -> Invert(Operate("XOR", ins))
         [] OTHER -> "X"

RECURSIVE DFrontGate(_, _, _)

\* Entries appended for gate g by the D-frontier scan: one per fan-in
\* position at or after the first D/Db fan-in, when g is X
DFrontGate(v, g, k) ==
    IF k > Len(Fanin(g)) THEN <<>>
    ELSE (IF v[g] = "X" /\ \E i \in 1..k : v[Fanin(g)[i]] \in {"D", "Db"}
          THEN <<g>> ELSE <<>>) \o DFrontGate(v, g, k + 1)

RECURSIVE DFrontFrom(_, _)
DFrontFrom(v, g) == IF g > Cardinality(IGates) THEN <<>> ELSE DFrontGate(v, g, 1) \o DFrontFrom(v, g + 1)

\* The D_frontiers list of imply_and_check
DFrontiers(v) == DFrontFrom(v, 1)

\* The local `value' after the D-frontier scan: the last fan-in value read
ScanValue(v, x) ==
    LET withFanin == {g \in IGates : Len(Fanin(g)) > 0}
    IN IF withFanin = {} THEN x
       ELSE LET g == CHOOSE m \in withFanin : \A h \in withFanin : h <= m
            IN v[Fanin(g)[Len(Fanin(g))]]

\* Unique D-drive assignments for the D-frontier gate g
DDriveAssigns(v, g) ==
    LET t == icirc.type[g]
        xs == XInputs(v, g)
        n == Len(Fanin(g))
        c(x) == Count(v, g, x)
        cond == (c("D") = 0 \/ c("Db") = 0) /\ (n - c("D") = c("X") \/ n - c("Db") = c("X"))
    IN CASE t \in {"AND", "NAND"} -> IF cond THEN AllTo(xs, "1") ELSE <<>>
         [] t \in {"OR", "NNOR"} -> IF cond THEN AllTo(xs, "0") ELSE <<>>
         [] t \in {"XOR", "XNOR"} -> AllTo(xs, "0")
         [] OTHER -> <<>>

Res(ok, v, div) == [ok |-> ok, v |-> v, div |-> div]

StoreKeepOld(v, loc, no) == [ok |-> TRUE, v |-> IF v[loc] = "X" THEN [v EXCEPT ![loc] = no] ELSE v]

\* Step 2: store the value on an X gate; a different definite value conflicts
StoreValue(v, loc, no) ==
    IF v[loc] = "X" THEN [ok |-> TRUE, v |-> [v EXCEPT ![loc] = no]]
    ELSE IF v[loc] # no THEN [ok |-> FALSE, v |-> v]
    ELSE [ok |-> TRUE, v |-> v]

(***************************************************************************)
(* imply_and_check runs as a call stack of frames.  A frame holds the      *)
(* arguments (loc, x = the local `value', dir), its position pc and its    *)
(* loop state: the backward assignments (assigns, i), the sibling fan-outs *)
(* of the assigned fan-in (sfos, sj), the forward fan-outs (fos, j), the   *)
(* unique D-frontier decision (only, df) and the D-drive assignments       *)
(* (drives, k).  A call pushes a frame and sets the caller's return pc; a  *)
(* frame returning True is popped; False ends the whole call, since every  *)
(* call site returns False at once.                                        *)
(***************************************************************************)

NewFrame(l, x, dir) ==
    [loc |-> l, x |-> x, dir |-> dir, pc |-> "start",
     assigns |-> <<>>, i |-> 0, sfos |-> <<>>, sj |-> 0,
     fos |-> <<>>, j |-> 0, only |-> FALSE, df |-> <<>>, drives |-> <<>>, k |-> 0]

StepRes(fail, v, stack) == [fail |-> fail, v |-> v, stack |-> stack]

\* Replace the top frame by f
SetTop(stack, f) == [stack EXCEPT ![Len(stack)] = f]

\* Set the top frame to f and call imply_and_check(l, x, dir)
Call(v, stack, f, l, x, dir) == StepRes(FALSE, v, Append(SetTop(stack, f), NewFrame(l, x, dir)))

\* Return True from the top frame
Return(v, stack) == StepRes(FALSE, v, SubSeq(stack, 1, Len(stack) - 1))

Fail(v, stack) == StepRes(TRUE, v, stack)

\* One step of the top frame of imply_and_check
Step(v, stack) ==
    LET f == stack[Len(stack)]
        loc == f.loc
    IN CASE f.pc = "start" ->
              \* steps 1 and 2, then backward justification
              LET no == NewOutput(faultv[loc], f.x)
                  sv == StoreValue(v, loc, no)
                  bj == Backward(sv.v, loc)
              IN IF no = "CONFLICT" THEN Fail(v, stack)
                 ELSE IF ~sv.ok THEN Fail(v, stack)
                 ELSE IF ~bj.ok THEN Fail(sv.v, stack)
                 ELSE StepRes(FALSE, sv.v,
                              SetTop(stack, [f EXCEPT !.pc = "assign", !.assigns = bj.assigns,
                                                      !.i = 1]))
         [] f.pc = "assign" ->
              IF f.i > Len(f.assigns)
              THEN LET x2 == IF Len(f.assigns) > 0 THEN f.assigns[Len(f.assigns)][2] ELSE f.x
                       df == DFrontiers(v)
                       x3 == IF ddrive THEN ScanValue(v, x2) ELSE x2
                       only == ddrive /\ Len(df) = 1
                               /\ \E m \in 1..Len(Fanin(df[1])) : Fanin(df[1])[m] = loc
                   IN IF f.dir = "BACKWARD" THEN Return(v, stack)
                      ELSE StepRes(FALSE, v,
                                   SetTop(stack, [f EXCEPT !.pc = "fwd", !.x = x3, !.only = only,
                                                           !.df = df, !.fos = IFanout(loc),
                                                           !.j = 1]))
              ELSE Call(v, stack, [f EXCEPT !.pc = "sibstart"],
                        f.assigns[f.i][1], f.assigns[f.i][2], "BACKWARD")
         [] f.pc = "sibstart" ->
              StepRes(FALSE, v, SetTop(stack, [f EXCEPT !.pc = "sib",
                                                       !.sfos = IFanout(f.assigns[f.i][1]),
                                                       !.sj = 1]))
         [] f.pc = "sib" ->
              \* re-visit the other fan-outs of the assigned fan-in
              IF f.sj > Len(f.sfos)
              THEN StepRes(FALSE, v, SetTop(stack, [f EXCEPT !.pc = "assign", !.i = f.i + 1]))
              ELSE LET fo == f.sfos[f.sj]
                       xv == f.assigns[f.i][2]
                       nf == [f EXCEPT !.sj = f.sj + 1]
                   IN IF fo = loc THEN StepRes(FALSE, v, SetTop(stack, nf))
                      ELSE IF v[fo] # "X" THEN Call(v, stack, nf, fo, xv, "BACKWARD")
                      ELSE Call(v, stack, nf, fo, FwdEval(v, fo, xv), "BOTH")
         [] f.pc = "fwd" ->
              \* forward propagation, with unique D-drive
              IF f.j > Len(f.fos) THEN Return(v, stack)
              ELSE LET fo == f.fos[f.j]
                       out == FwdEval(v, fo, f.x)
                       nf == [f EXCEPT !.j = f.j + 1]
                   IN IF out # "X" THEN Call(v, stack, nf, fo, out, "BOTH")
                      ELSE IF v[fo] # "X" THEN Call(v, stack, nf, fo, v[loc], "BACKWARD")
                      ELSE IF f.only /\ fo = f.df[1]
                      THEN StepRes(FALSE, v, SetTop(stack, [f EXCEPT !.pc = "drive",
                                                                   !.drives = DDriveAssigns(v, fo),
                                                                   !.k = 1]))
                      ELSE StepRes(FALSE, v, SetTop(stack, nf))
         [] f.pc = "drive" ->
              IF f.k > Len(f.drives)
              THEN StepRes(FALSE, v,
                           SetTop(stack, [f EXCEPT !.pc = "fwd", !.j = f.j + 1,
                                                   !.x = IF Len(f.drives) > 0
                                                         THEN f.drives[Len(f.drives)][2]
                                                         ELSE f.x]))
              ELSE Call(v, stack, [f EXCEPT !.k = f.k + 1],
                        f.drives[f.k][1], f.drives[f.k][2], "FORWARD")

RECURSIVE Run(_, _, _)

\* Run the call stack to completion; div reports that n steps did not suffice,
\* which happens only on unbounded recursion (Python's RecursionError aborts
\* the program, so such a run fails)
Run(v, stack, n) ==
    IF stack = <<>> THEN Res(TRUE, v, FALSE)
    ELSE IF n = 0 THEN Res(FALSE, v, TRUE)
    ELSE LET s == Step(v, stack)
         IN IF s.fail THEN Res(FALSE, s.v, FALSE) ELSE Run(s.v, s.stack, n - 1)

\* imply_and_check(circuit, faults, location, value, D_drive, direction)
Imply(v, loc, x, dir, n) == Run(v, <<NewFrame(loc, x, dir)>>, n)

AllX == [g \in IGates |-> "X"]

\* Three primary inputs feeding one three-input AND
AndCircuits ==
    {[type |-> <<"INPUT", "INPUT", "INPUT", "AND">>,
      fanin |-> <<<<>>, <<>>, <<>>, <<1, 2, 3>>>>]}

\* Two primary inputs feeding one two-input OR or NOR, in both fan-in orders
OrCircuits ==
    {[type |-> <<"INPUT", "INPUT", t>>, fanin |-> <<<<>>, <<>>, p>>] :
       t \in {"OR", "NOR"}, p \in {<<1, 2>>, <<2, 1>>}}

CIdle ==
    /\ circ = "none" /\ queue = {} /\ flag = {} /\ classes = <<>> /\ top = <<>>

IInit ==
    /\ CIdle
    /\ icirc \in ICircuits
    /\ vals = AllX
    /\ faultv = AllX
    /\ ddrive \in BOOLEAN
    /\ aborted = FALSE
    /\ exitcode = "running"

DInit ==
    /\ CIdle
    /\ icirc \in AndCircuits
    /\ vals = AllX
    /\ faultv = AllX
    /\ ddrive = TRUE
    /\ aborted = FALSE
    /\ exitcode = "running"

OInit ==
    /\ CIdle
    /\ icirc \in OrCircuits
    /\ vals = AllX
    /\ faultv = AllX
    /\ ddrive = TRUE
    /\ aborted = FALSE
    /\ exitcode = "running"

\* Fault command: append to the active fault list
FaultCmd ==
    /\ ~aborted
    /\ \E g \in IGates, p \in {"0", "1"} :
         /\ faultv' = [faultv EXCEPT ![g] = p]
         /\ UNCHANGED <<icirc, vals, ddrive, aborted, exitcode>>
    /\ UNCHANGED cvars

\* Imply command: imply_and_check(..., "BOTH"); abort on conflict
ImplyCmd ==
    /\ ~aborted
    /\ \E g \in IGates, x \in Roth :
         LET r == Imply(vals, g, x, "BOTH", MaxSteps)
         IN /\ vals' = r.v
            /\ aborted' = ~r.ok
            \* exit() on a conflict; an uncaught RecursionError exits with 1
            /\ exitcode' = IF r.ok THEN exitcode ELSE IF r.div THEN "1" ELSE "0"
            /\ UNCHANGED <<icirc, faultv, ddrive>>
    /\ UNCHANGED cvars

INext == FaultCmd \/ ImplyCmd

ISpec == IInit /\ [][INext]_vars

\* The driver with unique D-drive (-u) on three-input AND circuits
DSpec == DInit /\ [][INext]_vars

\* The driver with unique D-drive (-u) on two-input OR and NOR circuits
OSpec == OInit /\ [][INext]_vars

(***************************************************************************)
(* Properties of the fault collapser                                       *)
(***************************************************************************)

\* C1: after collapse_circuit, every stuck-at fault on every line (stems,
\* and branches of multi-fan-out gates) appears in exactly one class of the
\* forest; no fault appears twice.
C1_EveryFaultExactlyOnce ==
    CollapseDone => \A f \in LineFaults(circ) : Occurrences(f) = 1

\* The equivalence/dominance table of spec section 4.2
SpecTable(t, v) ==
    CASE t = "AND"  -> IF v = 0 THEN <<"EQ", 0>> ELSE <<"DOM", 1>>
      [] t = "NAND" -> IF v = 0 THEN <<"DOM", 1>> ELSE <<"EQ", 0>>
      [] t = "OR"   -> IF v = 0 THEN <<"DOM", 0>> ELSE <<"EQ", 1>>
      [] t = "NOR"  -> IF v = 0 THEN <<"EQ", 1>> ELSE <<"DOM", 0>>
      [] t = "NOT"  -> IF v = 0 THEN <<"EQ", 1>> ELSE <<"EQ", 0>>
      [] t = "BUFF" -> IF v = 0 THEN <<"EQ", 0>> ELSE <<"EQ", 1>>

InEquiv(i, f) == \E k \in 1..Len(classes[i].equivalent) : classes[i].equivalent[k] = f

DomRep(i, f) == \E k \in 1..Len(classes[i].dominated) : Rep(classes[i].dominated[k]) = f

\* C2: each stem fault of a non-XOR gate held by a class relates its fan-in
\* faults (stem faults for single-fan-out fan-ins, branch faults otherwise)
\* to that class as the table says (equivalent member or representative of
\* a dominated child); for XOR/XNOR no fan-in fault is equivalent or
\* dominated, branch fan-in faults SA0/SA1 are top-level classes and the
\* fan-in gate is returned to the work set.
C2_TableHonoured ==
    \A i \in 1..Len(classes) : \A j \in 1..Len(classes[i].equivalent) :
      LET f == classes[i].equivalent[j]
          g == f.stem
          t == circ.type[g]
      IN (f.br = 0 /\ t # "INPUT") =>
         \A k \in 1..Len(circ.fanin[g]) :
           LET fi == circ.fanin[g][k]
               line(v) == IF Cardinality(FanoutOf(circ, fi)) = 1
                          THEN Fault(v, fi, 0) ELSE Fault(v, fi, g)
           IN IF t \in {"XOR", "XNOR"}
              THEN /\ \A v \in {0, 1} : ~InEquiv(i, line(v)) /\ ~DomRep(i, line(v))
                   /\ Cardinality(FanoutOf(circ, fi)) > 1 =>
                        \A v \in {0, 1} : \E m \in 1..Len(top) : Rep(top[m]) = line(v)
                   /\ fi \in queue \cup flag
              ELSE LET e == SpecTable(t, f.v)
                   IN IF e[1] = "EQ" THEN InEquiv(i, line(e[2]))
                      ELSE DomRep(i, line(e[2]))

C2_Witness ==
    /\ \E g \in Gates : circ.type[g] = "XOR" /\ g \in flag
                        /\ \E m \in 1..Len(top) : Rep(top[m]).br = g

\* C3: the checkpoint listing is a subset of the not-dominating listing by
\* representative fault, and the .analysis report lists exactly their
\* difference.
C3_CheckpointSubsetAnalysis ==
    CollapseDone =>
      /\ RepsOf(NoDominantFaultsCheckPoints) \subseteq RepsOf(NoDominantFaults)
      /\ {Analysis[i] : i \in 1..Len(Analysis)}
           = RepsOf(NoDominantFaults) \ RepsOf(NoDominantFaultsCheckPoints)

C3_Witness ==
    /\ CollapseDone
    /\ Len(Analysis) > 0
    /\ \E i \in 1..Len(NoDominantFaultsCheckPoints) :
         \A m \in 1..Len(top) : top[m] # NoDominantFaultsCheckPoints[i]

\* The circuit G = NAND(A, B) with output G (A = 1, B = 2, G = 3)
NandCase ==
    /\ circ.type[1] = "INPUT" /\ circ.type[2] = "INPUT"
    /\ circ.type[3] = "NAND" /\ circ.fanin[3] = <<1, 2>>
    /\ circ.outputs = {3}

EquivSet(id) == {classes[id].equivalent[k] : k \in 1..Len(classes[id].equivalent)}

DomReps(id) == {Rep(classes[id].dominated[k]) : k \in 1..Len(classes[id].dominated)}

NandForest ==
    /\ Len(top) = 2
    /\ \E a, b \in 1..2 :
         /\ Rep(top[a]) = Fault(0, 3, 0) /\ Rep(top[b]) = Fault(1, 3, 0)
         /\ EquivSet(top[a]) = {Fault(0, 3, 0)}
         /\ DomReps(top[a]) = {Fault(1, 1, 0), Fault(1, 2, 0)}
         /\ EquivSet(top[b]) = {Fault(1, 3, 0), Fault(0, 1, 0), Fault(0, 2, 0)}

\* C4 (as stated): for G = NAND(A, B) the collapser yields two roots for G,
\* SA0 with equivalents {G/0} dominating {A/1}, {B/1}, SA1 with equivalents
\* {G/1, A/0, B/0}, and the .order listing has 5 entries.
C4_NandFiveEntries ==
    (CollapseDone /\ NandCase) => NandForest /\ Len(Ordered) = 5

\* C4 (amended): the same forest, and the .order listing has 4 entries, one
\* per class.
C4_NandFourEntries ==
    (CollapseDone /\ NandCase) => NandForest /\ Len(Ordered) = 4

C4_Witness == CollapseDone /\ NandCase

Pos(s, x) == CHOOSE k \in 1..Len(s) : s[k] = x

RECURSIVE Subtree(_, _)

\* The class id and every class below it in the dominance forest
Subtree(cls, id) ==
    {id} \cup UNION {Subtree(cls, cls[id].dominated[m]) : m \in 1..Len(cls[id].dominated)}

GateSeq == [i \in 1..Cardinality(IGates) |-> i]

\* Gate names as report lines
Names(gs) == [i \in 1..Len(gs) |-> ToString(gs[i])]

\* The output computed for gate g by report_j_front (no case for NOR)
JFrontOutput(v, g) ==
    LET t == icirc.type[g]
        ins == FaninVals(v, g)
    IN CASE t \in {"AND", "XOR", "OR"} -> Operate(t, ins)
         [] t = "XNOR" -> Invert(Operate("XOR", ins))
         [] t = "NAND" -> Invert(Operate("AND", ins))
         [] t = "BUFF" -> v[Fanin(g)[1]]
         [] t = "NOT"  -> Invert(v[Fanin(g)[1]])
         [] OTHER -> "X"

\* The lines written by report_j_front
ReportJFront(v) ==
    <<"J-Frontier">>
    \o Names(SelectSeq(GateSeq, LAMBDA g : icirc.type[g] # "INPUT" /\ JFrontOutput(v, g) = "X"
                                            /\ v[g] \in Definite))
    \o <<"$", "">>

\* report_d_front with the append inside the fan-in loop, as in the scan of
\* imply_and_check
ReportDFrontInLoop(v) == <<"D-Frontier">> \o Names(DFrontiers(v)) \o <<"$", "">>

\* The lines written by report_d_front
ReportDFront(v) ==
    <<"D-Frontier">>
    \o Names(SelectSeq(GateSeq, LAMBDA g : Cardinality({i \in 1..Len(Fanin(g)) :
                                                        v[Fanin(g)[i]] \in {"D", "Db"}}) > 0
                                            /\ v[g] = "X"))
    \o <<"$", "">>

RECURSIVE XPathUtil(_, _)

\* x_path_check_utils(circuit, g): g has no fan-out, or some fan-out with
\* another X fan-in (or a NOT) continues an X-path
XPathUtil(v, g) ==
    IF IFanoutSet(g) = {} THEN TRUE
    ELSE \E fo \in IFanoutSet(g) :
           /\ (Cardinality({i \in 1..Len(Fanin(fo)) : Fanin(fo)[i] # g /\ v[Fanin(fo)[i]] = "X"}) > 0
               \/ icirc.type[fo] = "NOT")
           /\ XPathUtil(v, fo)

\* D-frontier membership as tested by the report writers
IsDFront(v, g) == v[g] = "X" /\ \E i \in 1..Len(Fanin(g)) : v[Fanin(g)[i]] \in {"D", "Db"}

\* The lines written by x_path_check: the first D-frontier gate with an
\* X-path ends the section at once
ReportXPath(v) ==
    LET found == SelectSeq(GateSeq, LAMBDA g : IsDFront(v, g) /\ XPathUtil(v, g))
    IN IF found = <<>> THEN <<"X-PATH", "$", "">>
       ELSE <<"X-PATH", ToString(found[1])>>

\* C6: fault absorption.  With an active fault of polarity p on L, an
\* Imply of the good value not-p on an X line stores D (p = 0) or Db (p = 1),
\* an Imply of p stores p, an Imply of the opposing D value returns False;
\* with no fault on L the implied value is stored unchanged.
C6_FaultAbsorption ==
    ~aborted =>
      \A L \in IGates, x \in Roth :
        LET r == Imply(vals, L, x, "BOTH", MaxSteps)
            p == faultv[L]
        IN ~r.div =>
           /\ (p = "0" /\ x = "1" /\ vals[L] = "X") => r.v[L] = "D"
           /\ (p = "1" /\ x = "0" /\ vals[L] = "X") => r.v[L] = "Db"
           /\ (p \in {"0", "1"} /\ x = p /\ vals[L] = "X") => r.v[L] = p
           /\ ((p = "0" /\ x = "Db") \/ (p = "1" /\ x = "D")) => ~r.ok
           /\ (p = "X" /\ vals[L] = "X") => r.v[L] = x

C6_Witness ==
    /\ \E L \in IGates : faultv[L] = "0" /\ vals[L] = "D"
    /\ \E L \in IGates : faultv[L] = "1" /\ vals[L] = "1"

\* C7: monotonicity.  Once a gate's value is definite it never reverts to X
\* and never changes to another definite value; an Imply whose effective
\* value on a definite gate differs from the stored one (an attempt to
\* change it) returns False.
C7_AttemptFails ==
    ~aborted =>
      \A L \in IGates, x \in Roth :
        (vals[L] \in Definite /\ NewOutput(faultv[L], x) # vals[L])
          => ~Imply(vals, L, x, "BOTH", MaxSteps).ok

C7_Monotone ==
    /\ [][~aborted => \A g \in IGates : vals[g] # "X" => vals'[g] = vals[g]]_vars
    /\ []C7_AttemptFails

\* A state with definite values, one of them D, on which later Imply
\* commands can attempt changes
C7_Witness ==
    /\ ~aborted
    /\ \E g \in IGates : vals[g] = "D" /\ \E h \in IGates \ {g} : vals[h] \in Definite

\* C8: idempotence.  When Imply(g, x) succeeds, a second Imply(g, x) on the
\* resulting state returns True and changes no gate value.
C8_Idempotent ==
    ~aborted =>
      \A g \in IGates, x \in Roth :
        LET r1 == Imply(vals, g, x, "BOTH", MaxSteps)
        IN r1.ok => LET r2 == Imply(r1.v, g, x, "BOTH", MaxSteps)
                    IN r2.ok /\ r2.v = r1.v

C8_Witness ==
    /\ ~aborted
    /\ Cardinality({g \in IGates : vals[g] \in Definite}) >= 2

\* The gate equation of g over the current fan-in values
GateEquation(v, g) ==
    LET t == icirc.type[g]
        ins == [i \in 1..Len(icirc.fanin[g]) |-> v[icirc.fanin[g][i]]]
    IN CASE t = "AND"  -> Operate("AND", ins)
         [] t = "NAND" -> Invert(Operate("AND", ins))
         [] t = "OR"   -> Operate("OR", ins)
         [] t = "NOR"  -> Invert(Operate("OR", ins))
         [] t = "XOR"  -> Operate("XOR", ins)
         [] t = "XNOR" -> Invert(Operate("XOR", ins))
         [] t = "NOT"  -> Invert(ins[1])
         [] t = "BUFF" -> ins[1]

Consistent(stored, e) ==
    stored = e \/ (stored = "D" /\ e = "1") \/ (stored = "Db" /\ e = "0")

\* C9: forward soundness.  After any successful Imply, every gate whose
\* fan-ins are all definite stores a value consistent with its equation.
C9_ForwardSound ==
    ~aborted =>
      \A g \in IGates :
        (icirc.type[g] # "INPUT" /\ \A i \in 1..Len(icirc.fanin[g]) : vals[icirc.fanin[g][i]] \in Definite)
          => Consistent(vals[g], GateEquation(vals, g))

\* C10: unique D-drive.  With -u, when a single Imply on a fan-in L of the
\* three-input AND gate 4 (other fan-ins X, no D-frontier yet) puts D on L,
\* both other fan-ins are forced to 1.
C10_UniqueDDriveAnd ==
    (ddrive /\ ~aborted /\ DFrontiers(vals) = <<>> /\ vals[4] = "X") =>
      \A L \in {1, 2, 3}, x \in Roth :
        (\A o \in {1, 2, 3} \ {L} : vals[o] = "X" /\ faultv[o] = "X") =>
          LET r == Imply(vals, L, x, "BOTH", MaxSteps)
          IN (r.ok /\ r.v[L] = "D") =>
               \A o \in {1, 2, 3} \ {L} : r.v[o] = "1"

\* C11: unique D-drive on OR and NOR.  With -u, when a single Imply on a
\* fan-in L of the OR/NOR gate 3 (other fan-in X, no D-frontier yet) puts Db
\* on L, so that gate 3 (still X) is the unique D-frontier on L's fan-out,
\* the remaining X fan-in is forced to 0.
C11_UniqueDDriveNor ==
    (ddrive /\ ~aborted /\ DFrontiers(vals) = <<>> /\ vals[3] = "X") =>
      \A L \in {1, 2}, x \in Roth :
        (vals[3 - L] = "X" /\ faultv[3 - L] = "X") =>
          LET r == Imply(vals, L, x, "BOTH", MaxSteps)
          IN (r.ok /\ r.v[L] = "Db") => r.v[3 - L] = "0"

\* C12: J-frontier report.  Jfront lists exactly the non-INPUT gates with a
\* definite value whose gate equation over the current fan-in values is X,
\* for every gate type including NOR, between the header and the closing
\* '$' and blank line.
C12_JFrontExact ==
    ~aborted =>
      ReportJFront(vals) =
        <<"J-Frontier">>
        \o Names(SelectSeq(GateSeq, LAMBDA g : icirc.type[g] # "INPUT" /\ vals[g] \in Definite
                                                /\ GateEquation(vals, g) = "X"))
        \o <<"$", "">>

\* C13: D-frontier report.  Dfront lists, once each and in gate order, exactly
\* the gates whose value is X and one of whose fan-ins is D or Db, then the
\* closing '$' and blank line; it changes no gate value.
C13_DFrontExact ==
    ~aborted =>
      ReportDFront(vals) =
        <<"D-Frontier">>
        \o Names(SelectSeq(GateSeq, LAMBDA g : vals[g] = "X"
                                                /\ \E i \in 1..Len(Fanin(g)) : vals[Fanin(g)[i]] \in {"D", "Db"}))
        \o <<"$", "">>

C13_Witness ==
    /\ ~aborted
    /\ \E g \in IGates : Len(Fanin(g)) = 2 /\ vals[g] = "X" /\ vals[Fanin(g)[1]] \in {"D", "Db"}

\* C14: X-path report.  Xpath lists every D-frontier gate that has an X-path
\* to an output, not only the first, and always ends with '$' and a blank
\* line.
C14_XPathAll ==
    ~aborted =>
      ReportXPath(vals) =
        <<"X-PATH">>
        \o Names(SelectSeq(GateSeq, LAMBDA g : IsDFront(vals, g) /\ XPathUtil(vals, g)))
        \o <<"$", "">>

\* C15: conflict handling.  When an Imply command returns False, no later
\* command runs (no gate value or fault changes afterwards) and the process
\* exits with a non-zero status; the values the failing call assigned
\* before its conflict are kept.
C15_AbortNonZero ==
    [][/\ aborted => UNCHANGED <<vals, faultv>>
       /\ (~aborted /\ aborted') => exitcode' \notin {"running", "0"}]_vars

\* C16: XNOR backward justification.  When an Imply stores x on an X-valued
\* XNOR gate with exactly one X fan-in and no D or Db fan-in, backward
\* justification forces that fan-in so that the parity of 1s matches x:
\* output 1 (or D) needs an even number of 1s, output 0 (or Db) an odd one.
C16_XnorParity ==
    ~aborted =>
      \A g \in IGates, x \in Definite :
        (/\ icirc.type[g] = "XNOR" /\ vals[g] = "X" /\ faultv[g] = "X"
         /\ Count(vals, g, "X") = 1 /\ Count(vals, g, "D") = 0 /\ Count(vals, g, "Db") = 0) =>
          LET ones == Count(vals, g, "1")
              need == IF x \in {"1", "D"}
                      THEN (IF ones % 2 = 0 THEN "0" ELSE "1")
                      ELSE (IF ones % 2 = 0 THEN "1" ELSE "0")
          IN Backward([vals EXCEPT ![g] = x], g).assigns = <<<<XInputs(vals, g)[1], need>>>>

\* Two-valued assignments to all gates that keep the definite values of v,
\* give loc the value x and satisfy every gate equation
Completions(v, loc, x) ==
    {c \in [IGates -> {"0", "1"}] :
       /\ \A g \in IGates : v[g] # "X" => c[g] = v[g]
       /\ c[loc] = x
       /\ \A g \in IGates : icirc.type[g] # "INPUT" => c[g] = GateEquation(c, g)}

\* C17: no spurious conflict.  On a fault-free circuit whose values are 0, 1
\* or X, an Imply of 0 or 1 that returns False does so only on a genuine
\* conflict: no assignment of 0/1 to the gates agrees with the stored values
\* and the implied value and satisfies every gate equation.
C17_OnlyGenuineConflicts ==
    (~aborted /\ faultv = AllX /\ \A g \in IGates : vals[g] \in {"0", "1", "X"}) =>
      \A L \in IGates, x \in {"0", "1"} :
        LET r == Imply(vals, L, x, "BOTH", MaxSteps)
        IN (~r.ok /\ ~r.div) => Completions(vals, L, x) = {}

\* C18: termination.  From every state reachable by Fault and Imply commands,
\* every Imply command's call of imply_and_check returns (True or False)
\* within MaxSteps steps rather than recursing without end.
C18_Terminates ==
    ~aborted => \A g \in IGates, x \in Roth : ~Imply(vals, g, x, "BOTH", MaxSteps).div

RECURSIVE CollapseMinFirst(_, _), ClassCanon(_, _)

\* collapse_circuit run to completion, popping the smallest gate each time
CollapseMinFirst(c, st) ==
    IF st.queue = {} THEN st
    ELSE CollapseMinFirst(c, PopStep(c, st, CHOOSE g \in st.queue : \A h \in st.queue : g <= h))

\* The class id as a tree: its equivalent list and its dominated subtrees
ClassCanon(cls, id) ==
    [equivalent |-> cls[id].equivalent,
     dominated |-> [i \in 1..Len(cls[id].dominated) |-> ClassCanon(cls, cls[id].dominated[i])]]

\* The root classes as trees, in top-list order
RootTrees(cls, tp) == [i \in 1..Len(tp) |-> ClassCanon(cls, tp[i])]

\* The multiset of root trees
Forest(cls, tp) ==
    LET trees == RootTrees(cls, tp)
    IN [t \in {trees[i] : i \in 1..Len(trees)} |-> Cardinality({i \in 1..Len(trees) : trees[i] = t})]

RefCollapse ==
    CollapseMinFirst(circ, [queue |-> circ.outputs, flag |-> {}, classes |-> <<>>, top |-> <<>>])

\* C19: pop-order independence.  Every run of collapse_circuit on a circuit,
\* whatever order it pops the work set in, yields the same multiset of root
\* classes (same equivalent lists, same dominance subtrees) as the run that
\* always pops the smallest gate; only the order of the roots may differ.
C19_OrderIndependent ==
    CollapseDone => Forest(classes, top) = Forest(RefCollapse.classes, RefCollapse.top)

C19_Witness ==
    /\ CollapseDone
    /\ RootTrees(classes, top) # RootTrees(RefCollapse.classes, RefCollapse.top)

====
